---- MODULE Spec2Model ----
(***************************************************************************)
(* The dashboards demo server (deps/dashboards/server): a mutex-guarded    *)
(* slice of Dashboard records behind five HTTP handlers, together with the *)
(* dashboards Private App that calls it through the HTTP client.           *)
(*                                                                         *)
(* Every handler takes the one mutex before it touches the slice and holds *)
(* it until it returns, so a handler is one atomic action in Spec,         *)
(* SpecList and SpecEnum; SpecConc runs the handlers step by step, several *)
(* at a time, and checks that reading against the mutex.                   *)
(* Strings the code indexes or parses (identifiers, the next query         *)
(* parameter) are sequences of one-character strings.                      *)
(***************************************************************************)
EXTENDS Integers, Sequences, FiniteSets, TLC

VARIABLES dashboards, req, resp, enum, mu, hs, lin, argo, tofu, k8s, s3

vars == <<dashboards, req, resp, enum, mu, hs, lin, argo, tofu, k8s, s3>>

\* what a handler taken as one atomic action leaves alone: the mutex and the
\* handlers in flight
others == <<mu, hs, lin, argo, tofu, k8s, s3>>

----------------------------------------------------------------------------
(* Bounds of the model *)

\* createDashboard is not taken once the slice holds this many records
MaxDashboards == 3

\* createFn calls in flight at one time
NumCallers == 2

\* the number of requests handled at the same time
NumHandlers == 2

----------------------------------------------------------------------------
(* Program constants *)

charset ==
    << "a","b","c","d","e","f","g","h","i","j","k","l","m",
       "n","o","p","q","r","s","t","u","v","w","x","y","z",
       "A","B","C","D","E","F","G","H","I","J","K","L","M",
       "N","O","P","Q","R","S","T","U","V","W","X","Y","Z",
       "0","1","2","3","4","5","6","7","8","9" >>

length == 8

maxres == 2

\* Go's int is 32 or 64 bits wide by platform; the model takes the 32-bit
\* width, the widest the model checker's integers represent.
MaxInt == 2147483647

MinInt == (-MaxInt) - 1

\* nextInt + maxres in two's complement, for b >= 0
AddInt(a, b) ==
    IF a > MaxInt - b THEN MinInt + (a - (MaxInt - b) - 1) ELSE a + b

----------------------------------------------------------------------------
(* JSON bodies and query parameters *)

\* a JSON field that is present with value v, or absent
Some(v) == <<v>>
None == <<>>

\* json.Decoder.Decode into a models.Dashboard: an absent field keeps the zero
\* value "" of its string
FieldOf(f) == IF f = None THEN "" ELSE f[1]

\* the empty identifier: the id query parameter absent, or the ID field unset
NoID == <<>>

IDOf(f) == IF f = None THEN NoID ELSE f[1]

Decode(body) ==
    [ ID          |-> IDOf(body.id),
      Name        |-> FieldOf(body.name),
      Description |-> FieldOf(body.description),
      Project     |-> FieldOf(body.project) ]

\* a request without a body
NoBody == [ bad |-> FALSE, id |-> None, name |-> None,
            description |-> None, project |-> None ]

\* a body that is not JSON: Decode returns an error
BadJSON == [ bad |-> TRUE, id |-> None, name |-> None,
             description |-> None, project |-> None ]

----------------------------------------------------------------------------
(* The store *)

\* what rand.Int() returns over the eight calls of one generateExternalID
RandDraws == { [ i \in 1..length |-> k * 100 + i ] : k \in { 0, 1 } }

generateExternalID(draws) ==
    [ i \in 1..length |-> charset[(draws[i] % Len(charset)) + 1] ]

\* a lookup that falls back to the first record instead of nil
lookupOrFirst(ds, externalID) ==
    IF \E i \in 1..Len(ds) : ds[i].ID = externalID
    THEN CHOOSE i \in 1..Len(ds) :
            /\ ds[i].ID = externalID
            /\ \A j \in 1..(i - 1) : ds[j].ID # externalID
    ELSE IF ds = <<>> THEN 0 ELSE 1

\* the position (from 1) of the first record with that ID, 0 for nil
lookupDashboard(ds, externalID) ==
    IF \E i \in 1..Len(ds) : ds[i].ID = externalID
    THEN CHOOSE i \in 1..Len(ds) :
            /\ ds[i].ID = externalID
            /\ \A j \in 1..(i - 1) : ds[j].ID # externalID
    ELSE 0

GenIDs == { generateExternalID(d) : d \in RandDraws }

ReqIDs == GenIDs \cup { NoID }

NoReq == [ op |-> "none", id |-> NoID, body |-> NoBody, next |-> <<>> ]

NoResp == [ status |-> 0, body |-> <<>>, next |-> 0, encoded |-> FALSE ]

\* a client that pages through the list: where it stands, what it has
\* collected, and whether the slice was left alone since its first call
NoEnum == [ status |-> "idle", clean |-> TRUE, next |-> <<>>, pages |-> <<>>,
            calls |-> 0, kept |-> {} ]

\* a handler changed the slice to ds while a paging client exists: the client
\* has not seen a still slice, and of the records that were there at its first
\* call those in ds are still there
Touched(e, changed, ds) ==
    IF changed /\ e.status # "idle"
    THEN [ e EXCEPT !.clean = FALSE,
                    !.kept = { d \in @ : \E k \in 1..Len(ds) : ds[k] = d } ]
    ELSE e

\* a handler goroutine: where it stands in its handler, its request, its
\* locals (the position lookupDashboard returned, the page copied so far), the
\* response it wrote, and a record of what happened to it
Idle ==
    [ pc |-> "idle", r |-> NoReq, i |-> 0, page |-> <<>>, resp |-> NoResp,
      draws |-> <<>>, enc |-> TRUE, acquired |-> FALSE, malformed |-> FALSE,
      match |-> TRUE ]

\* the handlers of the requests in flight
Handlers == 1..NumHandlers

\* the run of the same requests one after the other, in the order in which
\* they took the mutex: its slice, the order of the Lock and Unlock calls, and
\* the handler whose last step read or wrote the slice
NoLin == [ seq |-> <<>>, order |-> <<>>, done |-> <<>>, access |-> 0 ]

\* the ArgoCD app before any operation: nothing applied, nothing returned
NoArgo ==
    [ pc |-> "idle", op |-> "", externalID |-> <<>>, in |-> <<>>,
      manifest |-> <<>>, res |-> <<>>, polls |-> <<>>,
      resource |-> <<>>, err |-> "", created |-> <<>>,
      secretUID |-> <<>>, applies |-> 0, cluster |-> <<>>, createdAs |-> <<>> ]

\* the OpenTofu runner before any Apply
NoTofu ==
    [ pc |-> "idle", op |-> "", input |-> <<>>, variables |-> <<>>,
      cmds |-> <<>>, world |-> <<>>,
      out |-> <<>>, state |-> <<>>, err |-> "" ]

\* the createFn calls in flight
Callers == 1..NumCallers

\* a createFn call that has not started
NoCaller ==
    [ pc |-> "idle", input |-> <<>>, name |-> <<>>, existed |-> <<>>,
      uid |-> <<>>, err |-> "" ]

\* the cluster before any createFn: no Secret in the namespace argocd
NoK8s == [ secrets |-> {}, callers |-> [ c \in Callers |-> NoCaller ] ]

\* the OpenTofu app before any operation: no bucket in the account
NoS3 ==
    [ pc |-> "idle", op |-> "", externalID |-> <<>>, input |-> <<>>,
      todo |-> <<>>, cmds |-> <<>>, cloud |-> {}, state |-> {},
      out |-> <<>>, resource |-> <<>>, err |-> "", created |-> <<>> ]

Init ==
    /\ dashboards = <<>>
    /\ req = NoReq
    /\ resp = NoResp
    /\ enum = NoEnum
    /\ mu = FALSE
    /\ hs = [ h \in Handlers |-> Idle ]
    /\ lin = NoLin
    /\ argo = NoArgo
    /\ tofu = NoTofu
    /\ k8s = NoK8s
    /\ s3 = NoS3

\* http.Error(w, msg, code)
Error(code) == [ status |-> code, body |-> <<>>, next |-> 0, encoded |-> FALSE ]

\* dashboard.ID = generateExternalID(); dashboards = append(dashboards, &dashboard)
\* a create that puts the new record first
Prepend1(ds, d, draws) ==
    << [ d EXCEPT !.ID = generateExternalID(draws) ] >> \o ds

\* a create that keeps the identifier of the request body
Append1KeepID(ds, d, draws) == Append(ds, d)

\* dashboard.ID = generateExternalID(); dashboards = append(dashboards, &dashboard)
Append1(ds, d, draws) ==
    Append(ds, [ d EXCEPT !.ID = generateExternalID(draws) ])

\* a create without the validation of the project
NeverRejected(dashboard) == FALSE

\* a validation of the name instead of the project
RejectedByName(dashboard) == dashboard.Name = ""

\* if dashboard.Project == "" { http.Error(..., 400) }
Rejected(dashboard) == dashboard.Project = ""

\* POST /dashboard/create
createDashboard(body, draws, encodeOK) ==
    /\ Len(dashboards) < MaxDashboards
    /\ req' = [ op |-> "create", id |-> NoID, body |-> body, next |-> <<>> ]
    /\ IF body.bad
       THEN /\ resp' = Error(400)
            /\ UNCHANGED dashboards
       ELSE IF Rejected(Decode(body))
       THEN /\ resp' = Error(400)
            /\ UNCHANGED dashboards
       ELSE /\ dashboards' = Append1(dashboards, Decode(body), draws)
            \* WriteHeader(201) comes first: a later http.Error cannot change it
            /\ resp' = [ status  |-> 201,
                         body    |-> IF encodeOK
                                     THEN << dashboards'[Len(dashboards')] >>
                                     ELSE <<>>,
                         next    |-> 0,
                         encoded |-> encodeOK ]
    /\ enum' = Touched(enum, dashboards' # dashboards, dashboards')
    /\ UNCHANGED others

\* the response of a handler that ends by encoding v (a sequence of records)
\* and the next value n: json.NewEncoder(w).Encode, then http.Error on failure
Encoded(v, n, encodeOK) ==
    IF encodeOK
    THEN [ status |-> 200, body |-> v, next |-> n, encoded |-> TRUE ]
    ELSE Error(500)

\* GET /dashboard/get?id=
getDashboard(externalID, encodeOK) ==
    /\ req' = [ op |-> "get", id |-> externalID, body |-> NoBody, next |-> <<>> ]
    /\ LET i == lookupDashboard(dashboards, externalID)
       IN  IF i = 0
           THEN resp' = Error(404)
           ELSE resp' = Encoded(<< dashboards[i] >>, 0, encodeOK)
    /\ UNCHANGED <<dashboards, enum>>
    /\ UNCHANGED others

\* an update that copies the project of the body too
OverwriteProject(d, updatedDashboard) ==
    [ d EXCEPT !.Name = updatedDashboard.Name,
               !.Description = updatedDashboard.Description,
               !.Project = updatedDashboard.Project ]

\* dashboard.Name = updatedDashboard.Name
\* dashboard.Description = updatedDashboard.Description
Overwrite(d, updatedDashboard) ==
    [ d EXCEPT !.Name = updatedDashboard.Name,
               !.Description = updatedDashboard.Description ]

\* updateDashboard from the decoded body on: the slice and the response
Update(ds, externalID, body, encodeOK) ==
    IF body.bad
    THEN [ ds |-> ds, resp |-> Error(400) ]
    ELSE LET i == lookupDashboard(ds, externalID)
         IN  IF i = 0
             THEN [ ds |-> ds, resp |-> Error(404) ]
             ELSE LET out == [ ds EXCEPT ![i] = Overwrite(@, Decode(body)) ]
                  IN  [ ds |-> out, resp |-> Encoded(<< out[i] >>, 0, encodeOK) ]

\* PUT /dashboard/update?id=
updateDashboard(externalID, body, encodeOK) ==
    /\ req' = [ op |-> "update", id |-> externalID, body |-> body, next |-> <<>> ]
    /\ dashboards' = Update(dashboards, externalID, body, encodeOK).ds
    /\ resp' = Update(dashboards, externalID, body, encodeOK).resp
    /\ enum' = Touched(enum, dashboards' # dashboards, dashboards')
    /\ UNCHANGED others

\* a removal that moves the last record into the gap
RemoveUnordered(ds, externalID) ==
    LET i == CHOOSE k \in 1..Len(ds) :
                /\ ds[k].ID = externalID
                /\ \A j \in 1..(k - 1) : ds[j].ID # externalID
    IN  IF i = Len(ds) THEN SubSeq(ds, 1, Len(ds) - 1)
        ELSE SubSeq([ ds EXCEPT ![i] = ds[Len(ds)] ], 1, Len(ds) - 1)

\* the loop of deleteDashboard: the first record with that ID is cut out by
\* append(dashboards[:i], dashboards[i+1:]...), then break
Remove(ds, externalID) ==
    LET i == CHOOSE k \in 1..Len(ds) :
                /\ ds[k].ID = externalID
                /\ \A j \in 1..(k - 1) : ds[j].ID # externalID
    IN  SubSeq(ds, 1, i - 1) \o SubSeq(ds, i + 1, Len(ds))

\* DELETE /dashboard/delete?id=
deleteDashboard(externalID) ==
    /\ req' = [ op |-> "delete", id |-> externalID, body |-> NoBody, next |-> <<>> ]
    /\ IF lookupDashboard(dashboards, externalID) = 0
       THEN /\ resp' = Error(404)
            /\ UNCHANGED dashboards
       ELSE /\ dashboards' = Remove(dashboards, externalID)
            /\ resp' = [ status |-> 204, body |-> <<>>, next |-> 0,
                         encoded |-> FALSE ]
    /\ enum' = Touched(enum, dashboards' # dashboards, dashboards')
    /\ UNCHANGED others

----------------------------------------------------------------------------
(* The dashboards app and the HTTP client *)

\* json.Marshal of a models.Dashboard: every field is written, "" included
Marshal(d) ==
    [ bad |-> FALSE, id |-> Some(d.ID), name |-> Some(d.Name),
      description |-> Some(d.Description), project |-> Some(d.Project) ]

\* updateFn builds models.Dashboard{} from the fields present in req.Input
\* and sends it with Client.UpdateDashboard; req.body records the input
updateFn(externalID, input, encodeOK) ==
    LET dashboard == [ ID |-> NoID, Name |-> FieldOf(input.name),
                       Description |-> FieldOf(input.description), Project |-> "" ]
        r == Update(dashboards, externalID, Marshal(dashboard), encodeOK)
    IN  /\ req' = [ op |-> "updateFn", id |-> externalID, body |-> input,
                    next |-> <<>> ]
        /\ dashboards' = r.ds
        /\ resp' = r.resp
        /\ enum' = Touched(enum, dashboards' # dashboards, dashboards')
        /\ UNCHANGED others
    /\ UNCHANGED others

----------------------------------------------------------------------------
(* The next query parameter *)

Digits == << "0","1","2","3","4","5","6","7","8","9" >>

IsDigit(ch) == \E k \in 1..10 : Digits[k] = ch

DigitVal(ch) == (CHOOSE k \in 1..10 : Digits[k] = ch) - 1

\* the digits of s accumulated as a negative number, so that the magnitude of
\* the smallest int fits; "range" when the value leaves the int range
RECURSIVE NegAcc(_, _)
NegAcc(s, acc) ==
    IF s = <<>> THEN [ ok |-> TRUE, val |-> acc ]
    ELSE LET d == DigitVal(Head(s))
         IN  IF \/ acc < MinInt \div 10 + 1
                \/ (acc = MinInt \div 10 + 1 /\ d > 8)
             THEN [ ok |-> FALSE, val |-> 0 ]
             ELSE NegAcc(Tail(s), acc * 10 - d)

\* strconv.Atoi: an optional sign, then one or more decimal digits, the value
\* within the int range; anything else is an error
Atoi(s) ==
    LET signed == s # <<>> /\ Head(s) \in { "+", "-" }
        digits == IF signed THEN Tail(s) ELSE s
        neg    == signed /\ Head(s) = "-"
    IN  IF digits = <<>> \/ \E k \in 1..Len(digits) : ~IsDigit(digits[k])
        THEN [ ok |-> FALSE, val |-> 0 ]
        ELSE LET n == NegAcc(digits, 0)
             IN  IF ~n.ok THEN n
                 ELSE IF neg THEN n
                 ELSE IF n.val = MinInt THEN [ ok |-> FALSE, val |-> 0 ]
                 ELSE [ ok |-> TRUE, val |-> -n.val ]

\* for i := nextInt; i < nextInt+maxres; i++ { if i >= len(dashboards) { break };
\* append *dashboards[i] }: indexing below 0 panics
RECURSIVE ListLoop(_, _, _, _)
ListLoop(ds, i, bound, acc) ==
    IF ~(i < bound) THEN [ panic |-> FALSE, page |-> acc ]
    ELSE IF i >= Len(ds) THEN [ panic |-> FALSE, page |-> acc ]
    ELSE IF i < 0 THEN [ panic |-> TRUE, page |-> acc ]
    ELSE ListLoop(ds, i + 1, bound, Append(acc, ds[i + 1]))

\* a list that never announces a further page
ListNextNever(ds, nextInt) == 0

\* a next that is also set when the page ends exactly at the end of the slice
ListNextInclusive(ds, nextInt) ==
    IF AddInt(nextInt, maxres) <= Len(ds) THEN AddInt(nextInt, maxres) ELSE 0

\* if nextInt+maxres < len(dashboards) { dashboardList.Next = nextInt + maxres }
ListNext(ds, nextInt) ==
    IF AddInt(nextInt, maxres) < Len(ds) THEN AddInt(nextInt, maxres) ELSE 0

\* the handler panicked: the deferred Unlock runs and no response is written
Panicked == [ status |-> -1, body |-> <<>>, next |-> 0, encoded |-> FALSE ]

\* the response of listDashboards to ?next=
ListResponse(ds, next, encodeOK) ==
    LET a       == Atoi(next)
        nextInt == IF next = <<>> THEN 0 ELSE a.val
        l       == ListLoop(ds, nextInt, AddInt(nextInt, maxres), <<>>)
    IN  IF next # <<>> /\ ~a.ok THEN Error(400)
        ELSE IF l.panic THEN Panicked
        ELSE Encoded(l.page, ListNext(ds, nextInt), encodeOK)

\* GET /dashboard/list?next=
listDashboards(next, encodeOK) ==
    /\ req' = [ op |-> "list", id |-> NoID, body |-> NoBody, next |-> next ]
    /\ resp' = ListResponse(dashboards, next, encodeOK)
    /\ UNCHANGED <<dashboards, enum>>
    /\ UNCHANGED others

----------------------------------------------------------------------------------------------------------------------------------------
(* Paging through the list with the app's listFn *)

\* the decimal digits of m <= 0, most significant first
RECURSIVE NegDigits(_)
NegDigits(m) ==
    IF m = 0 THEN <<>>
    ELSE LET q == IF m % 10 = 0 THEN m \div 10 ELSE m \div 10 + 1
         IN  Append(NegDigits(q), Digits[(q * 10 - m) + 1])

\* strconv.Itoa
Itoa(n) ==
    IF n = 0 THEN << "0" >>
    ELSE IF n < 0 THEN << "-" >> \o NegDigits(n)
    ELSE NegDigits(-n)

\* listFn: Client.ListDashboards sends ?next=<req.Next>; any status but 200
\* is an error; Next of the answer is "" when the server's next is 0 and its
\* decimal string otherwise
\* a listFn that asks the server for the first page whatever its request says
listFnFirstPage(reqNext, encodeOK) ==
    LET r == ListResponse(dashboards, <<>>, encodeOK)
    IN  [ resp      |-> r,
          err       |-> r.status # 200,
          resources |-> r.body,
          next      |-> IF r.next # 0 THEN Itoa(r.next) ELSE <<>> ]

listFn(reqNext, encodeOK) ==
    LET r == ListResponse(dashboards, reqNext, encodeOK)
    IN  [ resp      |-> r,
          err       |-> r.status # 200,
          resources |-> r.body,
          next      |-> IF r.next # 0 THEN Itoa(r.next) ELSE <<>> ]

\* one call of listFn by a client that pages through the list
Paged(e, reqNext, encodeOK) ==
    LET out == listFn(reqNext, encodeOK)
    IN  /\ req' = [ op |-> "listFn", id |-> NoID, body |-> NoBody,
                    next |-> reqNext ]
        /\ resp' = out.resp
        /\ enum' = IF out.err
                   THEN [ e EXCEPT !.status = "failed", !.calls = @ + 1 ]
                   ELSE [ e EXCEPT
                            !.status = IF out.next = <<>> THEN "done"
                                       ELSE "running",
                            !.next = out.next,
                            !.pages = @ \o out.resources,
                            !.calls = @ + 1 ]
        /\ UNCHANGED dashboards
        /\ UNCHANGED others

\* the first call: ListRequest.Next is ""
enumStart(encodeOK) ==
    /\ enum.status # "running"
    /\ Paged([ NoEnum EXCEPT !.status = "running",
                             !.kept = { dashboards[k] : k \in 1..Len(dashboards) } ],
             <<>>, encodeOK)

\* a further call, with the Next of the previous answer
enumNext(encodeOK) ==
    /\ enum.status = "running"
    /\ Paged(enum, enum.next, encodeOK)

----------------------------------------------------------------------------
(* Requests explored *)

id0 == generateExternalID([ k \in 1..length |-> 0 ])

\* bodies of POST /dashboard/create: every combination of name, description
\* and project present or absent, an empty project, a body that carries an id
CreateBodies ==
    { BadJSON } \cup
    { [ bad |-> FALSE, id |-> None, name |-> n, description |-> d, project |-> p ] :
        n \in { None, Some(""), Some("A") }, d \in { None, Some("x") },
        p \in { None, Some("p") } } \cup
    { [ bad |-> FALSE, id |-> None, name |-> Some("A"), description |-> None,
        project |-> Some("") ],
      [ bad |-> FALSE, id |-> Some(id0), name |-> Some("A"), description |-> None,
        project |-> Some("p") ] }

\* bodies of PUT /dashboard/update: name and description present or absent,
\* and bodies that carry an id and a project of their own
UpdateBodies ==
    { BadJSON } \cup
    { [ bad |-> FALSE, id |-> None, name |-> n, description |-> d, project |-> None ] :
        n \in { None, Some("A") }, d \in { None, Some("x") } } \cup
    { [ bad |-> FALSE, id |-> Some(i), name |-> None, description |-> Some("x"),
        project |-> Some("q") ] : i \in GenIDs }

\* inputs of the app's updateFn: name and description present or absent
UpdateInputs ==
    { [ bad |-> FALSE, id |-> None, name |-> n, description |-> d, project |-> None ] :
        n \in { None, Some("A") }, d \in { None, Some("x") } }

NextParams ==
    { <<>>, <<"0">>, <<"1">>, <<"2">>, <<"3">>, <<"4">>, <<"-","1">>, <<"x">>,
      <<"2","1","4","7","4","8","3","6","4","6">>,
      <<"2","1","4","7","4","8","3","6","4","8">> }

Next ==
    \/ \E body \in CreateBodies, draws \in RandDraws, encodeOK \in BOOLEAN :
          createDashboard(body, draws, encodeOK)
    \/ \E id \in ReqIDs, encodeOK \in BOOLEAN : getDashboard(id, encodeOK)
    \/ \E id \in ReqIDs, body \in UpdateBodies, encodeOK \in BOOLEAN :
          updateDashboard(id, body, encodeOK)
    \/ \E id \in ReqIDs : deleteDashboard(id)
    \/ \E id \in ReqIDs, input \in UpdateInputs, encodeOK \in BOOLEAN :
          updateFn(id, input, encodeOK)

Spec == Init /\ [][Next]_vars

\* creates of the list scenarios: records named A, B and C
ListBodies ==
    { [ bad |-> FALSE, id |-> None, name |-> Some(n), description |-> None,
        project |-> Some("p") ] : n \in { "A", "B", "C" } }

NextList ==
    \/ \E body \in ListBodies, draws \in RandDraws, encodeOK \in BOOLEAN :
          createDashboard(body, draws, encodeOK)
    \/ \E id \in ReqIDs : deleteDashboard(id)
    \/ \E next \in NextParams, encodeOK \in BOOLEAN : listDashboards(next, encodeOK)

SpecList == Init /\ [][NextList]_vars

\* a client pages through the list while other clients create and delete
\* between its calls; once a paging has ended, the next step starts another
NextEnum ==
    \/ /\ enum.status \in { "idle", "running" }
       /\ \E body \in ListBodies, draws \in RandDraws :
             createDashboard(body, draws, TRUE)
    \/ /\ enum.status \in { "idle", "running" }
       /\ \E id \in ReqIDs : deleteDashboard(id)
    \/ \E encodeOK \in BOOLEAN : enumStart(encodeOK)
    \/ \E encodeOK \in BOOLEAN : enumNext(encodeOK)

SpecEnum == Init /\ [][NextEnum]_vars

----------------------------------------------------------------------------
(* The handlers step by step, several requests at a time *)

\* the requests the handlers are given
ConcRequests ==
    { [ op |-> "create", id |-> NoID, body |-> b, next |-> <<>> ] :
        b \in { BadJSON,
                [ bad |-> FALSE, id |-> None, name |-> Some("A"),
                  description |-> None, project |-> None ],
                [ bad |-> FALSE, id |-> None, name |-> Some("A"),
                  description |-> None, project |-> Some("p") ] } } \cup
    { [ op |-> "get", id |-> id0, body |-> NoBody, next |-> <<>> ] } \cup
    { [ op |-> "update", id |-> id0, body |-> b, next |-> <<>> ] :
        b \in { BadJSON,
                [ bad |-> FALSE, id |-> None, name |-> Some("B"),
                  description |-> Some("x"), project |-> None ] } } \cup
    { [ op |-> "delete", id |-> id0, body |-> NoBody, next |-> <<>> ] } \cup
    { [ op |-> "list", id |-> NoID, body |-> NoBody, next |-> n ] :
        n \in { <<>>, <<"x">>, <<"-","1">> } }

\* slices the server can hold when the requests arrive
InitStores ==
    LET rec(n) == [ ID |-> id0, Name |-> n, Description |-> "", Project |-> "p" ]
    IN  { <<>>, << rec("A") >>, << rec("A"), rec("C") >> }

InitConc ==
    /\ dashboards \in InitStores
    /\ req = NoReq
    /\ resp = NoResp
    /\ enum = NoEnum
    /\ mu = FALSE
    /\ hs = [ h \in Handlers |-> Idle ]
    /\ lin = [ NoLin EXCEPT !.seq = dashboards ]
    /\ argo = NoArgo
    /\ tofu = NoTofu
    /\ k8s = NoK8s
    /\ s3 = NoS3

\* the checks a handler makes before mu.Lock(): the body decodes, the project
\* of a create is there, the next of a list is an integer
Malformed(r) ==
    \/ r.op \in { "create", "update" } /\ r.body.bad
    \/ r.op = "create" /\ ~r.body.bad /\ Rejected(Decode(r.body))
    \/ r.op = "list" /\ r.next # <<>> /\ ~Atoi(r.next).ok

nextIntOf(r) == IF r.next = <<>> THEN 0 ELSE Atoi(r.next).val

\* the handler of request r run alone on slice ds: the atomic handlers above
Atomic(ds, r, draws, encodeOK) ==
    IF Malformed(r) THEN [ ds |-> ds, resp |-> Error(400) ]
    ELSE IF r.op = "create"
    THEN LET out == Append1(ds, Decode(r.body), draws)
         IN  [ ds |-> out,
               resp |-> [ status |-> 201,
                          body |-> IF encodeOK THEN << out[Len(out)] >> ELSE <<>>,
                          next |-> 0, encoded |-> encodeOK ] ]
    ELSE IF r.op = "get"
    THEN [ ds |-> ds,
           resp |-> IF lookupDashboard(ds, r.id) = 0 THEN Error(404)
                    ELSE Encoded(<< ds[lookupDashboard(ds, r.id)] >>, 0, encodeOK) ]
    ELSE IF r.op = "update" THEN Update(ds, r.id, r.body, encodeOK)
    ELSE IF r.op = "delete"
    THEN IF lookupDashboard(ds, r.id) = 0
         THEN [ ds |-> ds, resp |-> Error(404) ]
         ELSE [ ds |-> Remove(ds, r.id),
                resp |-> [ status |-> 204, body |-> <<>>, next |-> 0,
                           encoded |-> FALSE ] ]
    ELSE [ ds |-> ds, resp |-> ListResponse(ds, r.next, encodeOK) ]

\* what is kept of a handler that returned
Returned(s, response, fits) ==
    [ Idle EXCEPT !.pc = "done",
                  !.r = s.r,
                  !.resp = [ NoResp EXCEPT !.status = response.status ],
                  !.acquired = s.acquired,
                  !.malformed = s.malformed,
                  !.match = fits ]

\* the request arrives and the handler runs up to mu.Lock(): it decodes the
\* body or parses next, and answers 400 and returns if that fails
Start(h, r) ==
    /\ hs[h].pc = "idle"
    /\ hs' = [ hs EXCEPT ![h] =
                 IF Malformed(r)
                 THEN Returned([ Idle EXCEPT !.r = r, !.malformed = TRUE ],
                               Error(400), TRUE)
                 ELSE [ Idle EXCEPT !.pc = "lock", !.r = r ] ]
    /\ lin' = [ lin EXCEPT !.access = 0 ]
    /\ UNCHANGED <<dashboards, req, resp, enum, mu, argo, tofu, k8s, s3>>

\* a Lock that does not wait
CanLockAlways(m) == TRUE

\* mu.Lock() returns when the mutex is unlocked
CanLock(m) == ~m

Lock(h) ==
    /\ hs[h].pc = "lock"
    /\ CanLock(mu)
    /\ mu' = TRUE
    /\ hs' = [ hs EXCEPT ![h].pc = "crit", ![h].acquired = TRUE ]
    /\ lin' = [ lin EXCEPT !.order = Append(@, h), !.access = 0 ]
    /\ UNCHANGED <<dashboards, req, resp, enum, argo, tofu, k8s, s3>>

\* the record a *models.Dashboard points to
At(ds, i) ==
    IF i \in 1..Len(ds) THEN ds[i]
    ELSE [ ID |-> NoID, Name |-> "", Description |-> "", Project |-> "" ]

\* the first statements under the lock: create draws the identifier and
\* appends; get, update and delete look the identifier up; list copies its page
Crit(h) ==
    LET s == hs[h]
        l == ListLoop(dashboards, nextIntOf(s.r),
                      AddInt(nextIntOf(s.r), maxres), <<>>)
    IN  /\ s.pc = "crit"
        /\ lin' = [ lin EXCEPT !.access = h ]
        /\ UNCHANGED <<req, resp, enum, mu, argo, tofu, k8s, s3>>
        /\ IF s.r.op = "create"
           THEN \E draws \in RandDraws :
                  /\ dashboards' = Append1(dashboards, Decode(s.r.body), draws)
                  /\ hs' = [ hs EXCEPT ![h].pc = "write",
                                       ![h].i = Len(dashboards'),
                                       ![h].draws = draws ]
           ELSE IF s.r.op = "list"
           THEN /\ UNCHANGED dashboards
                /\ hs' = [ hs EXCEPT
                             ![h].pc = IF l.panic THEN "unlock" ELSE "crit2",
                             ![h].page = l.page,
                             ![h].resp = IF l.panic THEN Panicked ELSE NoResp ]
           ELSE /\ UNCHANGED dashboards
                /\ hs' = [ hs EXCEPT
                             ![h].i = lookupDashboard(dashboards, s.r.id),
                             ![h].pc = IF s.r.op = "get"
                                          \/ lookupDashboard(dashboards, s.r.id) = 0
                                       THEN "write" ELSE "crit2" ]

\* the next statements under the lock: update overwrites the record found,
\* delete cuts it out, list compares with len(dashboards) for its Next
Crit2(h) ==
    LET s == hs[h]
    IN  /\ s.pc = "crit2"
        /\ lin' = [ lin EXCEPT !.access = h ]
        /\ UNCHANGED <<req, resp, enum, mu, argo, tofu, k8s, s3>>
        /\ IF s.r.op = "update"
           THEN /\ dashboards' =
                     IF s.i \in 1..Len(dashboards)
                     THEN [ dashboards EXCEPT
                              ![s.i] = Overwrite(@, Decode(s.r.body)) ]
                     ELSE dashboards
                /\ hs' = [ hs EXCEPT ![h].pc = "write" ]
           ELSE IF s.r.op = "delete"
           THEN /\ dashboards' =
                     IF lookupDashboard(dashboards, s.r.id) = 0 THEN dashboards
                     ELSE Remove(dashboards, s.r.id)
                /\ hs' = [ hs EXCEPT ![h].pc = "write" ]
           ELSE /\ UNCHANGED dashboards
                /\ hs' = [ hs EXCEPT
                             ![h].pc = "write",
                             ![h].resp = [ NoResp EXCEPT !.next =
                                  ListNext(dashboards, nextIntOf(s.r)) ] ]

\* the response is written, still under the lock: WriteHeader, Encode of the
\* record the pointer leads to (or of the page), or http.Error
Write(h, encodeOK) ==
    LET s == hs[h]
        d == At(dashboards, s.i)
    IN  /\ s.pc = "write"
        /\ lin' = [ lin EXCEPT
                      !.access = IF s.r.op \in { "create", "get", "update" }
                                    /\ s.i # 0 THEN h ELSE 0 ]
        /\ UNCHANGED <<dashboards, req, resp, enum, mu, argo, tofu, k8s, s3>>
        /\ hs' = [ hs EXCEPT
                     ![h].pc = "unlock",
                     ![h].enc = encodeOK,
                     ![h].resp =
                        IF s.r.op = "create"
                        THEN [ status |-> 201,
                               body |-> IF encodeOK THEN << d >> ELSE <<>>,
                               next |-> 0, encoded |-> encodeOK ]
                        ELSE IF s.r.op = "list"
                        THEN Encoded(s.page, s.resp.next, encodeOK)
                        ELSE IF s.i = 0 THEN Error(404)
                        ELSE IF s.r.op = "delete"
                        THEN [ status |-> 204, body |-> <<>>, next |-> 0,
                               encoded |-> FALSE ]
                        ELSE Encoded(<< d >>, 0, encodeOK) ]

\* a return that leaves the mutex locked
UnlockSkipped(m) == m

\* defer mu.Unlock(): runs on every return after the Lock, a panic included
Unlock(m) == FALSE

\* the handler returns: the deferred Unlock runs; the sequential run handles
\* the same request with the same draws and the same encode outcome
Return(h) ==
    LET s == hs[h]
        a == Atomic(lin.seq, s.r, s.draws, s.enc)
    IN  /\ s.pc = "unlock"
        /\ mu' = Unlock(mu)
        /\ hs' = [ hs EXCEPT ![h] = Returned(s, s.resp, s.resp = a.resp) ]
        /\ lin' = [ lin EXCEPT !.seq = a.ds, !.done = Append(@, h),
                               !.access = 0 ]
        /\ UNCHANGED <<dashboards, req, resp, enum, argo, tofu, k8s, s3>>

NextConc ==
    \/ \E h \in Handlers, r \in ConcRequests : Start(h, r)
    \/ \E h \in Handlers : Lock(h)
    \/ \E h \in Handlers : Crit(h)
    \/ \E h \in Handlers : Crit2(h)
    \/ \E h \in Handlers, encodeOK \in BOOLEAN : Write(h, encodeOK)
    \/ \E h \in Handlers : Return(h)

SpecConc == InitConc /\ [][NextConc]_vars

\* the Go scheduler runs every runnable goroutine, and a sync.Mutex hands the
\* lock to a goroutine that has waited (starvation mode)
SpecConcFair ==
    /\ SpecConc
    /\ \A h \in Handlers :
          /\ WF_vars(Crit(h) \/ Crit2(h) \/ Return(h)
                     \/ \E encodeOK \in BOOLEAN : Write(h, encodeOK))
          /\ SF_vars(Lock(h))

----------------------------------------------------------------------------
(* The ArgoCD app: createFn, updateFn and apply *)

\* polls of the Application explored before the retry budget is taken as spent
MaxPolls == 3

\* strings.Join(parts, "/")
RECURSIVE Join(_)
Join(parts) ==
    IF parts = <<>> THEN <<>>
    ELSE IF Len(parts) = 1 THEN parts[1]
    ELSE parts[1] \o << "/" >> \o Join(Tail(parts))

RECURSIVE SplitAcc(_, _, _)
SplitAcc(s, cur, acc) ==
    IF s = <<>> THEN Append(acc, cur)
    ELSE IF Head(s) = "/" THEN SplitAcc(Tail(s), <<>>, Append(acc, cur))
    ELSE SplitAcc(Tail(s), Append(cur, Head(s)), acc)

\* strings.Split(s, "/")
Split(s) == SplitAcc(s, <<>>, <<>>)

\* req.Input[key].(string): panics when the key is absent
Asserted(input, keys) == \A k \in keys : input[k] # None

\* application.yaml.tmpl executed and decoded by apply; the strings explored
\* are plain YAML scalars
Manifest(in) ==
    [ kind |-> "Application", name |-> in.Name,
      namespace |-> << "a", "r", "g", "o", "c", "d" >>,
      destination |-> in.Namespace, path |-> in.SourcePath,
      repoURL |-> in.RepoURL, targetRevision |-> in.TargetRevision,
      images |-> << in.Name \o << "=" >> \o in.Image >> ]

\* inputs that pass create.json: name, source_path and image are required
ArgoCreateInputs ==
    { [ name |-> Some(<< "n" >>), namespace |-> ns, source_path |-> Some("p"),
        repo_url |-> Some("r"), image |-> Some(<< "i" >>),
        target_revision |-> Some("HEAD") ] :
        ns \in { None, Some(<< "d" >>), Some(<< "a", "/", "b" >>) } }

\* inputs that pass update.json: source_path and image are required
ArgoUpdateInputs ==
    { [ source_path |-> Some(p), repo_url |-> r, image |-> Some(<< "j" >>),
        target_revision |-> Some("HEAD") ] :
        p \in { "p", "q" }, r \in { None, Some("r") } }

\* what a Get of the Application can bring back
FetchOutcomes ==
    { [ err |-> TRUE, found |-> FALSE, foundHealth |-> FALSE,
        status |-> "", health |-> "" ],
      [ err |-> FALSE, found |-> FALSE, foundHealth |-> FALSE,
        status |-> "", health |-> "" ],
      [ err |-> FALSE, found |-> TRUE, foundHealth |-> TRUE,
        status |-> "Synced", health |-> "Progressing" ],
      [ err |-> FALSE, found |-> TRUE, foundHealth |-> TRUE,
        status |-> "OutOfSync", health |-> "Healthy" ],
      [ err |-> FALSE, found |-> TRUE, foundHealth |-> TRUE,
        status |-> "Synced", health |-> "Healthy" ] }

\* what the Get and the Apply of the Secret can bring back
SecretOutcomes ==
    { [ get |-> "error", ok |-> FALSE, uid |-> <<>> ],
      [ get |-> "found", ok |-> TRUE, uid |-> << "s" >> ],
      [ get |-> "notfound", ok |-> FALSE, uid |-> <<>> ],
      [ get |-> "notfound", ok |-> TRUE, uid |-> << "s" >> ],
      [ get |-> "notfound", ok |-> TRUE, uid |-> <<>> ] }

\* the UIDs res.GetUID() can be
ArgoUIDs == { << "u" >>, <<>> }

\* the operation returns (nil, err)
Failed(a, e) == [ a EXCEPT !.pc = "done", !.err = e, !.resource = None ]

\* createFn up to the first apply: environment, templates, type assertions
argoCreateFn(input, envOK) ==
    LET a == [ argo EXCEPT !.op = "createFn", !.externalID = <<>>,
                           !.polls = <<>>, !.res = <<>>, !.err = "",
                           !.resource = None, !.manifest = <<>>, !.in = <<>>,
                           !.secretUID = <<>>, !.applies = 0 ]
        in == [ Name |-> input.name[1], Namespace |-> input.namespace[1],
                SourcePath |-> input.source_path[1],
                RepoURL |-> input.repo_url[1], Image |-> input.image[1],
                TargetRevision |-> input.target_revision[1] ]
    IN  /\ argo.pc \in { "idle", "done" }
        /\ argo' =
             IF ~envOK THEN Failed(a, "environment")
             ELSE IF ~Asserted(input, { "name", "namespace", "source_path",
                                        "repo_url", "image", "target_revision" })
             THEN Failed(a, "panic")
             ELSE [ a EXCEPT !.pc = "secret", !.in = in,
                             !.manifest = Manifest(in) ]
        /\ UNCHANGED <<dashboards, req, resp, enum, mu, hs, lin, tofu, k8s, s3>>

\* a createFn that goes on whatever the apply of the Secret returned
secretFailedNever(o) == FALSE

\* apply of the Secret returned an error, or createFn found its uid empty
secretFailed(o) ==
    \/ o.get = "error"
    \/ o.get = "notfound" /\ ~o.ok
    \/ o.uid = <<>>

\* apply of the Secret manifest and createFn's check of its result
applySecret(o) ==
    /\ argo.pc = "secret"
    /\ argo' =
         IF secretFailed(o)
         THEN Failed(argo, IF o.get = "error"
                           THEN "failed to check if secret exists"
                           ELSE "failed to apply secret manifest")
         ELSE [ argo EXCEPT !.pc = "apply", !.secretUID = o.uid ]
    /\ UNCHANGED <<dashboards, req, resp, enum, mu, hs, lin, tofu, k8s, s3>>

\* apply of the Application manifest: the server-side Apply
applyApplication(ok, uid) ==
    /\ argo.pc = "apply"
    /\ argo' =
         IF ~ok
         THEN [ Failed(argo, "failed to apply application manifest")
                  EXCEPT !.applies = @ + 1 ]
         ELSE [ argo EXCEPT !.pc = "poll", !.res = Some(uid),
                            !.applies = @ + 1,
                            !.cluster = Some(argo.manifest) ]
    /\ UNCHANGED <<dashboards, req, resp, enum, mu, hs, lin, tofu, k8s, s3>>

\* a poll that is content with Synced
pollSyncedOnly(obj) == ~obj.err /\ obj.found /\ obj.status = "Synced"

\* the function given to backoff.Retry returns nil
pollOnce(obj) ==
    /\ ~obj.err
    /\ obj.found /\ obj.foundHealth
    /\ obj.status = "Synced" /\ obj.health = "Healthy"

\* one call of the retried function
pollApplication(obj) ==
    /\ argo.pc = "poll"
    /\ Len(argo.polls) < MaxPolls
    /\ argo' = [ argo EXCEPT !.polls = Append(@, obj),
                             !.pc = IF pollOnce(obj) THEN "ret" ELSE "poll" ]
    /\ UNCHANGED <<dashboards, req, resp, enum, mu, hs, lin, tofu, k8s, s3>>

\* backoff.Retry gives up after a failed call: MaxElapsedTime has passed
retryExhausted ==
    /\ argo.pc = "poll"
    /\ Len(argo.polls) >= 1
    /\ argo' = Failed(argo, "application is not yet Synced and Healthy")
    /\ UNCHANGED <<dashboards, req, resp, enum, mu, hs, lin, tofu, k8s, s3>>

\* apply returns string(res.GetUID()) and createFn or updateFn builds its
\* OperationResponse
argoReturn ==
    LET uid == argo.res[1]
        r == [ ExternalID |-> IF argo.op = "createFn"
                              THEN Join(<< argo.in.Namespace, argo.in.Name, uid >>)
                              ELSE argo.externalID,
               DisplayName |-> argo.in.Name,
               name |-> argo.in.Name,
               namespace |-> argo.in.Namespace,
               repo_url |-> argo.in.RepoURL,
               source_path |-> argo.in.SourcePath,
               image |-> argo.in.Image ]
    IN  /\ argo.pc = "ret"
        /\ argo' =
             IF uid = <<>>
             THEN Failed(argo, "failed to apply application manifest")
             ELSE [ argo EXCEPT !.pc = "done", !.resource = Some(r),
                                !.created = IF argo.op = "createFn"
                                            THEN Some(r) ELSE @,
                                !.createdAs = IF argo.op = "createFn"
                                              THEN Some(argo.manifest) ELSE @ ]
        /\ UNCHANGED <<dashboards, req, resp, enum, mu, hs, lin, tofu, k8s, s3>>

\* updateFn up to its apply, called with an ExternalID createFn returned
argoUpdateFn(input, envOK) ==
    LET externalID == argo.created[1].ExternalID
        id == Split(externalID)
        a == [ argo EXCEPT !.op = "updateFn", !.externalID = externalID,
                           !.polls = <<>>, !.res = <<>>, !.err = "",
                           !.resource = None, !.manifest = <<>>, !.in = <<>>,
                           !.secretUID = <<>>, !.applies = 0 ]
        in == [ Namespace |-> id[1], Name |-> id[2],
                SourcePath |-> input.source_path[1],
                RepoURL |-> input.repo_url[1], Image |-> input.image[1],
                TargetRevision |-> input.target_revision[1] ]
    IN  /\ argo.pc = "done"
        /\ argo.created # None
        /\ argo' =
             IF ~envOK THEN Failed(a, "environment")
             ELSE IF Len(id) # 3 THEN Failed(a, "invalid external ID")
             ELSE IF ~Asserted(input, { "source_path", "repo_url", "image",
                                        "target_revision" })
             THEN Failed(a, "panic")
             ELSE [ a EXCEPT !.pc = "apply", !.in = in,
                             !.manifest = Manifest(in) ]
        /\ UNCHANGED <<dashboards, req, resp, enum, mu, hs, lin, tofu, k8s, s3>>

\* readFn, called with an ExternalID createFn returned: the Application is
\* fetched by its name from the namespace "argocd" and its fields returned
argoReadFn(envOK, getOK) ==
    LET externalID == argo.created[1].ExternalID
        id == Split(externalID)
        a == [ argo EXCEPT !.op = "readFn", !.externalID = externalID,
                           !.polls = <<>>, !.res = <<>>, !.err = "",
                           !.resource = None, !.manifest = <<>>, !.in = <<>>,
                           !.secretUID = <<>>, !.applies = 0 ]
        application == argo.cluster[1]
        r == [ ExternalID |-> externalID,
               DisplayName |-> application.name,
               name |-> application.name,
               namespace |-> application.namespace,
               repo_url |-> application.repoURL,
               source_path |-> application.path,
               image |-> IF Len(application.images) > 0
                         THEN application.images[1] ELSE <<>> ]
    IN  /\ argo.pc = "done"
        /\ argo.created # None
        /\ argo' =
             IF ~envOK THEN Failed(a, "environment")
             ELSE IF Len(id) # 3 THEN Failed(a, "invalid external ID")
             ELSE IF ~getOK \/ argo.cluster = None
                     \/ application.name # id[2]
             THEN Failed(a, "not found")
             ELSE [ a EXCEPT !.pc = "done", !.resource = Some(r) ]
        /\ UNCHANGED <<dashboards, req, resp, enum, mu, hs, lin, tofu, k8s, s3>>

NextArgo ==
    \/ \E input \in ArgoCreateInputs, envOK \in BOOLEAN :
         argoCreateFn(input, envOK)
    \/ \E o \in SecretOutcomes : applySecret(o)
    \/ \E ok \in BOOLEAN, uid \in ArgoUIDs : applyApplication(ok, uid)
    \/ \E obj \in FetchOutcomes : pollApplication(obj)
    \/ retryExhausted
    \/ argoReturn
    \/ \E input \in ArgoUpdateInputs, envOK \in BOOLEAN :
         argoUpdateFn(input, envOK)
    \/ \E envOK, getOK \in BOOLEAN : argoReadFn(envOK, getOK)

SpecArgo == Init /\ [][NextArgo]_vars

-----------------------------------------------------------------------------
(* createFn's repository Secret, several createFn calls at a time *)

\* []byte(s): the bytes of the characters the inputs are made of
ascii(c) ==
    CASE c = "/" -> 47 [] c = "a" -> 97 [] c = "b" -> 98
      [] c = "m" -> 109 [] c = "n" -> 110 [] c = "r" -> 114

RECURSIVE xor(_, _, _)
\* a ^ b of two values of n bits
xor(a, b, n) ==
    IF n = 0 THEN 0
    ELSE ((a + b) % 2) + (2 * xor(a \div 2, b \div 2, n - 1))

\* one byte of a 32-bit FNV-1a hash: hash ^= b; hash *= 16777619. The uint32
\* is kept as its two 16-bit halves << hi, lo >>, and 16777619 = 2^24 + 403
fnvByte(h, b) ==
    LET lo == ((h[2] \div 256) * 256) + xor(h[2] % 256, b, 8)
        p  == lo * 403
    IN  << ((h[1] * 403) + (p \div 65536) + ((lo % 256) * 256)) % 65536,
           p % 65536 >>

RECURSIVE fnvWrite(_, _)
\* h.Write(s)
fnvWrite(h, s) ==
    IF s = <<>> THEN h ELSE fnvWrite(fnvByte(h, ascii(Head(s))), Tail(s))

\* fnv.New32a() starts from the offset basis 2166136261; h.Sum32()
Sum32(s) == fnvWrite(<< 33052, 40389 >>, s)

\* a Secret named after the application instead of the repository
secretNameOfApp(input) == << "repo-", Sum32(input.name) >>

\* secretName := fmt.Sprintf("repo-%v", h.Sum32()) of the repo_url
secretName(input) == << "repo-", Sum32(input.repo_url) >>

\* toBase64
toBase64(s) == << "base64", s >>

\* the inputs of the createFn calls: two applications of one repository and
\* one of another
SecretInputs ==
    { [ name |-> << "n" >>, repo_url |-> << "r", "/", "a" >> ],
      [ name |-> << "m" >>, repo_url |-> << "r", "/", "a" >> ],
      [ name |-> << "n" >>, repo_url |-> << "r", "/", "b" >> ] }

\* the data of the Secret manifest that depend on the input
SecretData(input) ==
    [ url |-> toBase64(input.repo_url), name |-> toBase64(input.name) ]

\* dc.Resource(gvr).Namespace("argocd").Get(ctx, name): the Secrets of that name
Found(secrets, name) == { s \in secrets : s.name = name }

\* createFn up to its apply of the Secret: the name is computed and the
\* manifest rendered; existed keeps the Secret of that name, if any, that
\* was in the cluster when createFn was called
secretStart(c, input) ==
    /\ k8s.callers[c].pc \in { "idle", "done" }
    /\ k8s' = [ k8s EXCEPT !.callers[c] =
                  [ pc |-> "get", input |-> input, name |-> secretName(input),
                    existed |-> Found(k8s.secrets, secretName(input)),
                    uid |-> <<>>, err |-> "" ] ]
    /\ UNCHANGED <<dashboards, req, resp, enum, mu, hs, lin, argo, tofu, s3>>

\* apply of a Secret: the Get, and the return of the UID of a Secret found
secretGet(c, ok) ==
    LET me == k8s.callers[c]
        found == Found(k8s.secrets, me.name)
    IN  /\ me.pc = "get"
        /\ k8s' = [ k8s EXCEPT !.callers[c] =
                      IF ~ok
                      THEN [ me EXCEPT !.pc = "done",
                                       !.err = "failed to check if secret exists" ]
                      ELSE IF found # {}
                      THEN [ me EXCEPT !.pc = "done",
                                       !.uid = (CHOOSE s \in found : TRUE).uid ]
                      ELSE [ me EXCEPT !.pc = "apply" ] ]
        /\ UNCHANGED <<dashboards, req, resp, enum, mu, hs, lin, argo, tofu, s3>>

\* apply of a Secret that the Get did not find: a server-side Apply, which
\* creates the object under a new UID or, when an object of that name is
\* there by now, replaces its fields and keeps its UID
secretApply(c, ok) ==
    LET me == k8s.callers[c]
        found == Found(k8s.secrets, me.name)
        uid == IF found # {} THEN (CHOOSE s \in found : TRUE).uid
               ELSE << Cardinality(k8s.secrets) + 1 >>
        obj == [ name |-> me.name, uid |-> uid, data |-> SecretData(me.input) ]
    IN  /\ me.pc = "apply"
        /\ k8s' =
             IF ~ok
             THEN [ k8s EXCEPT !.callers[c] =
                      [ me EXCEPT !.pc = "done",
                                  !.err = "failed to apply secret manifest" ] ]
             ELSE [ k8s EXCEPT !.secrets = (@ \ found) \cup { obj },
                               !.callers[c] =
                                  [ me EXCEPT !.pc = "done", !.uid = uid ] ]
        /\ UNCHANGED <<dashboards, req, resp, enum, mu, hs, lin, argo, tofu, s3>>

NextSecret ==
    \/ \E c \in Callers, input \in SecretInputs : secretStart(c, input)
    \/ \E c \in Callers, ok \in BOOLEAN : secretGet(c, ok)
    \/ \E c \in Callers, ok \in BOOLEAN : secretApply(c, ok)

SpecSecret == Init /\ [][NextSecret]_vars

----------------------------------------------------------------------------
(* The OpenTofu runner: Apply and Destroy *)

\* the input maps given to Apply: values for the module's variables
TofuInputs == UNION { [ ks -> { "a", "b" } ] : ks \in SUBSET { "x", "y" } }

\* the "-var", "k=v" arguments in one of the orders the range over the map
\* can take
Variables(input) ==
    LET n == Cardinality(DOMAIN input)
    IN  { [ i \in 1..n |-> << "-var", << s[i], input[s[i]] >> >> ] :
            s \in { t \in [ 1..n -> DOMAIN input ] :
                      \A i, j \in 1..n : t[i] = t[j] => i = j } }

\* the resources of the module once "apply" went through with the input
Applied(input) ==
    << [ address |-> "null_resource.this", mode |-> "managed",
         type |-> "null_resource", name |-> "this", values |-> input ] >>

\* what "show -json" prints for the resources in the state
ShowJSON(world) ==
    [ valid |-> TRUE, format_version |-> "1.0", resources |-> world ]

\* output that is no JSON
Garbage == [ valid |-> FALSE, format_version |-> "", resources |-> <<>> ]

\* json.Unmarshal(out.Bytes(), &v): the fields State declares are kept
Unmarshal(out) ==
    [ ok |-> out.valid,
      state |-> [ Values |-> [ RootModule |-> [ Resources |->
                    [ k \in 1..Len(out.resources) |->
                        [ Address |-> out.resources[k].address,
                          Type |-> out.resources[k].type,
                          Name |-> out.resources[k].name,
                          Values |-> out.resources[k].values ] ] ] ] ] ]

\* a runner that goes on after a failed command
AfterStepAlways(ok, next) == next

\* if err != nil { return ... }: the next command runs only after a success
AfterStep(ok, next) == IF ok THEN next ELSE "done"

\* the command is logged with the error its function returned
Ran(t, name, ok) == Append(t.cmds, [ name |-> name, ok |-> ok ])

\* Runner.Apply is called
RunnerApply(input) ==
    /\ tofu.pc \in { "idle", "done" }
    /\ tofu' = [ tofu EXCEPT !.pc = "init", !.op = "Apply", !.input = input,
                             !.variables = <<>>, !.cmds = <<>>, !.out = <<>>, !.state = None,
                             !.err = "" ]
    /\ UNCHANGED <<dashboards, req, resp, enum, mu, hs, lin, argo, k8s, s3>>

\* Runner.Destroy is called
RunnerDestroy ==
    /\ tofu.pc \in { "idle", "done" }
    /\ tofu' = [ tofu EXCEPT !.pc = "init", !.op = "Destroy", !.input = <<>>,
                             !.variables = <<>>, !.cmds = <<>>, !.out = <<>>, !.state = None,
                             !.err = "" ]
    /\ UNCHANGED <<dashboards, req, resp, enum, mu, hs, lin, argo, k8s, s3>>

\* "init", and after it the loop that builds the variables
initCmd(ok) ==
    /\ tofu.pc = "init"
    /\ \E variables \in Variables(tofu.input) :
       tofu' = [ tofu EXCEPT
                   !.pc = AfterStep(ok, IF tofu.op = "Apply" THEN "apply"
                                        ELSE "destroy"),
                   !.cmds = Ran(tofu, "init", ok),
                   !.variables = IF ok /\ tofu.op = "Apply" THEN variables
                                 ELSE @,
                   !.err = IF ok THEN @ ELSE "opentofu init" ]
    /\ UNCHANGED <<dashboards, req, resp, enum, mu, hs, lin, argo, k8s, s3>>

\* "apply" with the variables; a failed apply may have made its changes
applyCmd(ok, changed) ==
    /\ tofu.pc = "apply"
    /\ tofu' = [ tofu EXCEPT
                   !.pc = AfterStep(ok, "show"),
                   !.cmds = Ran(tofu, "apply", ok),
                   !.world = IF ok \/ changed THEN Applied(tofu.input) ELSE @,
                   !.err = IF ok THEN @ ELSE "opentofu apply" ]
    /\ UNCHANGED <<dashboards, req, resp, enum, mu, hs, lin, argo, k8s, s3>>

\* "show -json" and the parse of its output; Apply returns
showCmd(ok, garbled) ==
    LET text == IF garbled THEN Garbage ELSE ShowJSON(tofu.world)
        v == Unmarshal(text)
        fine == ok /\ v.ok
    IN  /\ tofu.pc = "show"
        /\ tofu' = [ tofu EXCEPT
                       !.pc = "done",
                       !.cmds = Ran(tofu, "show", fine),
                       !.out = IF ok THEN text ELSE <<>>,
                       !.state = IF fine THEN Some(v.state) ELSE None,
                       !.err = IF fine THEN @ ELSE "opentofu show" ]
        /\ UNCHANGED <<dashboards, req, resp, enum, mu, hs, lin, argo, k8s, s3>>

\* "destroy"; Destroy returns the command's error as it is
destroyCmd(ok) ==
    /\ tofu.pc = "destroy"
    /\ tofu' = [ tofu EXCEPT
                   !.pc = "done",
                   !.cmds = Ran(tofu, "destroy", ok),
                   !.world = IF ok THEN <<>> ELSE @,
                   !.err = IF ok THEN @ ELSE "exit status 1" ]
    /\ UNCHANGED <<dashboards, req, resp, enum, mu, hs, lin, argo, k8s, s3>>

NextTofu ==
    \/ \E input \in TofuInputs : RunnerApply(input)
    \/ RunnerDestroy
    \/ \E ok \in BOOLEAN : initCmd(ok)
    \/ \E ok, changed \in BOOLEAN : applyCmd(ok, changed)
    \/ \E ok, garbled \in BOOLEAN : showCmd(ok, garbled)
    \/ \E ok \in BOOLEAN : destroyCmd(ok)

SpecTofu == Init /\ [][NextTofu]_vars

-----------------------------------------------------------------------------
(* The OpenTofu app: createFn, updateFn, readFn and deleteFn of an S3 bucket *)

\* the ARN of an S3 bucket: "arn:aws:s3:::" and its name
ARN(name) ==
    << "a", "r", "n", ":", "a", "w", "s", ":", "s", "3", ":", ":", ":" >> \o name

RECURSIVE SplitNAcc(_, _, _, _)
\* strings.SplitN(s, ":", n)
SplitNAcc(s, n, cur, acc) ==
    IF s = <<>> THEN Append(acc, cur)
    ELSE IF Head(s) = ":" /\ Len(acc) + 1 < n
    THEN SplitNAcc(Tail(s), n, <<>>, Append(acc, cur))
    ELSE SplitNAcc(Tail(s), n, Append(cur, Head(s)), acc)

\* arn.Parse: the prefix "arn:" and six sections, the last one the Resource
arnParse(s) ==
    LET sections == SplitNAcc(s, 6, <<>>, <<>>)
        ok == /\ Len(s) >= 4
              /\ SubSeq(s, 1, 4) = << "a", "r", "n", ":" >>
              /\ Len(sections) = 6
    IN  [ ok |-> ok, Resource |-> IF ok THEN sections[6] ELSE <<>> ]

\* status = var.versioning ? "Enabled" : "Suspended"
Status(versioning) == IF versioning THEN "Enabled" ELSE "Suspended"

\* resource "aws_s3_bucket" "bucket" as opentofu show prints it
Bucket(name) ==
    [ address |-> "aws_s3_bucket.bucket", type |-> "aws_s3_bucket",
      bucket |-> name, arn |-> ARN(name), region |-> "us-east-1",
      status |-> "" ]

\* resource "aws_s3_bucket_versioning" "versioning" as opentofu show prints it
Versioning(name, status) ==
    [ address |-> "aws_s3_bucket_versioning.versioning",
      type |-> "aws_s3_bucket_versioning",
      bucket |-> name, arn |-> <<>>, region |-> "", status |-> status ]

\* the inputs of createFn and updateFn: the variables of the module
TfInputs ==
    { [ name |-> n, versioning |-> v ] :
        n \in { << "b" >>, << "c" >> }, v \in BOOLEAN }

\* the two orders in which range visits the map of resources to import
ImportOrders ==
    { << "aws_s3_bucket.bucket", "aws_s3_bucket_versioning.versioning" >>,
      << "aws_s3_bucket_versioning.versioning", "aws_s3_bucket.bucket" >> }

\* one command of a Runner method
Cmd(method, name, address, id) ==
    [ method |-> method, name |-> name, address |-> address, id |-> id ]

\* Runner.Import: init, then one import for each resource of the map
ImportCmds(order, id) ==
    << Cmd("Import", "init", "", <<>>),
       Cmd("Import", "import", order[1], id),
       Cmd("Import", "import", order[2], id) >>

\* Runner.Apply: init, apply, show
ApplyCmds ==
    << Cmd("Apply", "init", "", <<>>), Cmd("Apply", "apply", "", <<>>),
       Cmd("Apply", "show", "", <<>>) >>

\* Runner.Show: init, show
ShowCmds == << Cmd("Show", "init", "", <<>>), Cmd("Show", "show", "", <<>>) >>

\* Runner.Destroy: init, destroy
DestroyCmds ==
    << Cmd("Destroy", "init", "", <<>>), Cmd("Destroy", "destroy", "", <<>>) >>

\* the error an operation returns when a Runner method failed
ErrorOf(method) ==
    CASE method = "Import"  -> "failed to import OpenTofu module"
      [] method = "Apply"   -> "failed to apply OpenTofu module"
      [] method = "Show"    -> "failed to show OpenTofu state"
      [] method = "Destroy" -> "opentofu destroy"

\* an operation that goes on after a command that failed
RestAlways(ok, todo) == Tail(todo)

\* if err != nil { return ... }: nothing runs after a command that failed
Rest(ok, todo) == IF ok THEN Tail(todo) ELSE <<>>

\* the operation after the command at the head of todo ran
Commanded(t, ok) ==
    LET c == Head(t.todo)
        left == Rest(ok, t.todo)
    IN  [ t EXCEPT !.cmds = Append(@, [ name |-> c.name, address |-> c.address,
                                        ok |-> ok ]),
                   !.todo = left,
                   !.err = IF ok THEN @ ELSE ErrorOf(c.method),
                   !.pc = IF left # <<>> THEN "run"
                          ELSE IF ok /\ t.err = "" THEN "ret" ELSE "done" ]

\* an operation that starts: a new runner with a fresh state
Started(op, externalID, input, todo) ==
    [ s3 EXCEPT !.pc = "run", !.op = op, !.externalID = externalID,
                !.input = input, !.todo = todo, !.cmds = <<>>, !.state = {},
                !.out = <<>>, !.resource = <<>>, !.err = "" ]

\* an operation that returns an error before any command
Refused(op, externalID, err) ==
    [ s3 EXCEPT !.pc = "done", !.op = op, !.externalID = externalID,
                !.input = <<>>, !.todo = <<>>, !.cmds = <<>>, !.state = {},
                !.out = <<>>, !.resource = <<>>, !.err = err ]

\* the ExternalIDs an operation is called with: the one createFn returned,
\* or a bare bucket name
ExternalIDs == { s3.created[k] : k \in DOMAIN s3.created } \cup { << "b" >> }

tfCreateFn(input, envOK) ==
    /\ s3.pc \in { "idle", "done" }
    /\ s3' = IF ~envOK THEN Refused("createFn", <<>>, "environment")
             ELSE Started("createFn", <<>>, Some(input), ApplyCmds)
    /\ UNCHANGED <<dashboards, req, resp, enum, mu, hs, lin, argo, tofu, k8s>>

\* updateFn, readFn and deleteFn up to their first command
Imported(op, externalID, input, envOK, order, then) ==
    LET a == arnParse(externalID)
    IN  /\ s3.pc \in { "idle", "done" }
        /\ s3' = IF ~a.ok THEN Refused(op, externalID, "arn: invalid")
                 ELSE IF ~envOK THEN Refused(op, externalID, "environment")
                 ELSE Started(op, externalID, input,
                              ImportCmds(order, a.Resource) \o then)
        /\ UNCHANGED <<dashboards, req, resp, enum, mu, hs, lin, argo, tofu, k8s>>

tfUpdateFn(input, envOK) ==
    \E externalID \in ExternalIDs, order \in ImportOrders :
        Imported("updateFn", externalID, Some(input), envOK, order, ApplyCmds)

tfReadFn(envOK) ==
    \E externalID \in ExternalIDs, order \in ImportOrders :
        Imported("readFn", externalID, None, envOK, order, ShowCmds)

tfDeleteFn(envOK) ==
    \E externalID \in ExternalIDs, order \in ImportOrders :
        Imported("deleteFn", externalID, None, envOK, order, DestroyCmds)

\* opentofu init
tfInitCmd(ok) ==
    /\ s3.pc = "run" /\ Head(s3.todo).name = "init"
    /\ s3' = Commanded(s3, ok)
    /\ UNCHANGED <<dashboards, req, resp, enum, mu, hs, lin, argo, tofu, k8s>>

\* opentofu import address id: succeeds only for a bucket that is there, and
\* puts the resource as it is in the account into the state
tfImportCmd(ok) ==
    LET c == Head(s3.todo)
        there == { b \in s3.cloud : b.bucket = c.id }
        r == IF c.address = "aws_s3_bucket.bucket" THEN Bucket(c.id)
             ELSE Versioning(c.id, (CHOOSE b \in there : TRUE).status)
    IN  /\ s3.pc = "run" /\ c.name = "import"
        /\ ok => there # {}
        /\ s3' = [ Commanded(s3, ok) EXCEPT
                     !.state = IF ok THEN @ \cup { r } ELSE @ ]
        /\ UNCHANGED <<dashboards, req, resp, enum, mu, hs, lin, argo, tofu, k8s>>

\* opentofu apply -var name=... -var versioning=...: the bucket of the state
\* is changed in place or replaced, a bucket not in the state is created
tfApplyCmd(ok) ==
    LET in == s3.input[1]
        mine == { r.bucket : r \in s3.state }
        b == [ bucket |-> in.name, status |-> Status(in.versioning) ]
    IN  /\ s3.pc = "run" /\ Head(s3.todo).name = "apply"
        /\ ok => \A x \in s3.cloud : x.bucket = in.name => in.name \in mine
        /\ s3' = [ Commanded(s3, ok) EXCEPT
                     !.cloud = IF ok
                               THEN { x \in @ : x.bucket \notin mine } \cup { b }
                               ELSE @,
                     !.state = IF ok
                               THEN { Bucket(in.name),
                                      Versioning(in.name, b.status) }
                               ELSE @ ]
        /\ UNCHANGED <<dashboards, req, resp, enum, mu, hs, lin, argo, tofu, k8s>>

\* opentofu show -json and json.Unmarshal of what it printed
tfShowCmd(ok) ==
    /\ s3.pc = "run" /\ Head(s3.todo).name = "show"
    /\ s3' = [ Commanded(s3, ok) EXCEPT
                 !.out = IF ok THEN Some(s3.state) ELSE @ ]
    /\ UNCHANGED <<dashboards, req, resp, enum, mu, hs, lin, argo, tofu, k8s>>

\* opentofu destroy: the resources of the state are deleted
tfDestroyCmd(ok) ==
    LET mine == { r.bucket : r \in s3.state }
    IN  /\ s3.pc = "run" /\ Head(s3.todo).name = "destroy"
        /\ s3' = [ Commanded(s3, ok) EXCEPT
                     !.cloud = IF ok THEN { x \in @ : x.bucket \notin mine }
                               ELSE @,
                     !.state = IF ok THEN {} ELSE @ ]
        /\ UNCHANGED <<dashboards, req, resp, enum, mu, hs, lin, argo, tofu, k8s>>

\* the properties map built from the resources of the state whose bucket is key
Properties(resources, key) ==
    LET b == { r \in resources : r.type = "aws_s3_bucket" /\ r.bucket = key }
        v == { r \in resources :
                 r.type = "aws_s3_bucket_versioning" /\ r.bucket = key }
    IN  [ arn |-> IF b = {} THEN None ELSE Some((CHOOSE r \in b : TRUE).arn),
          bucket |-> IF b = {} THEN None ELSE Some((CHOOSE r \in b : TRUE).bucket),
          region |-> IF b = {} THEN None ELSE Some((CHOOSE r \in b : TRUE).region),
          versioning |-> IF v = {} THEN None
                         ELSE Some((CHOOSE r \in v : TRUE).status) ]

\* len(properties) == 0
NoProperties == [ arn |-> None, bucket |-> None, region |-> None,
                  versioning |-> None ]

\* the OperationResponse of an operation whose commands all succeeded
tfReturn ==
    LET p == Properties(s3.out[1],
                        IF s3.op = "readFn" THEN s3.externalID
                        ELSE s3.input[1].name)
        fail(e) == [ s3 EXCEPT !.pc = "done", !.err = e ]
        done(r) == [ s3 EXCEPT !.pc = "done", !.resource = Some(r) ]
    IN  /\ s3.pc = "ret"
        /\ s3' =
             CASE s3.op = "createFn" ->
                    IF p.arn = None \/ p.bucket = None THEN fail("panic")
                    ELSE [ done([ ExternalID |-> p.arn[1],
                                  DisplayName |-> p.bucket[1],
                                  Properties |-> p ])
                             EXCEPT !.created = p.arn ]
               [] s3.op = "updateFn" ->
                    done([ ExternalID |-> <<>>, DisplayName |-> <<>>,
                           Properties |-> p ])
               [] s3.op = "readFn" ->
                    IF p = NoProperties THEN fail("resource not found")
                    ELSE IF p.bucket = None THEN fail("panic")
                    ELSE done([ ExternalID |-> <<>>, DisplayName |-> p.bucket[1],
                                Properties |-> p ])
               [] s3.op = "deleteFn" ->
                    done([ ExternalID |-> s3.externalID, DisplayName |-> <<>>,
                           Properties |-> NoProperties ])
        /\ UNCHANGED <<dashboards, req, resp, enum, mu, hs, lin, argo, tofu, k8s>>

NextTofuApp ==
    \/ \E input \in TfInputs, envOK \in BOOLEAN : tfCreateFn(input, envOK)
    \/ \E input \in TfInputs, envOK \in BOOLEAN : tfUpdateFn(input, envOK)
    \/ \E envOK \in BOOLEAN : tfReadFn(envOK)
    \/ \E envOK \in BOOLEAN : tfDeleteFn(envOK)
    \/ \E ok \in BOOLEAN : tfInitCmd(ok)
    \/ \E ok \in BOOLEAN : tfImportCmd(ok)
    \/ \E ok \in BOOLEAN : tfApplyCmd(ok)
    \/ \E ok \in BOOLEAN : tfShowCmd(ok)
    \/ \E ok \in BOOLEAN : tfDestroyCmd(ok)
    \/ tfReturn

SpecTofuApp == Init /\ [][NextTofuApp]_vars

----------------------------------------------------------------------------
(* Properties *)

IsAlnum8(id) ==
    /\ Len(id) = 8
    /\ \A k \in 1..8 : \E c \in 1..Len(charset) : charset[c] = id[k]

IDs(ds) == [ i \in 1..Len(ds) |-> ds[i].ID ]

WithoutAt(q, i) == SubSeq(q, 1, i - 1) \o SubSeq(q, i + 1, Len(q))

Updates == { "update", "updateFn" }

\* C1: a successful create returns an 8-character identifier over [a-zA-Z0-9],
\* and the get with that identifier that follows it (nothing in between)
\* returns the name, description and project given to the create.
C1_CreateThenGet ==
    [][ ( /\ req.op = "create" /\ resp.status = 201 /\ resp.encoded
          /\ req'.op = "get" /\ req'.id = resp.body[1].ID
          /\ resp'.status # 500 )
        => ( /\ IsAlnum8(resp.body[1].ID)
             /\ resp'.status = 200
             /\ resp'.body[1].Name = FieldOf(req.body.name)
             /\ resp'.body[1].Description = FieldOf(req.body.description)
             /\ resp'.body[1].Project = FieldOf(req.body.project) ) ]_vars

C3_UniqueImmutableIDs ==
    [][ /\ \A i, j \in 1..Len(dashboards') :
              i # j => dashboards'[i].ID # dashboards'[j].ID
        /\ \/ IDs(dashboards') = IDs(dashboards)
           \/ SubSeq(IDs(dashboards'), 1, Len(dashboards)) = IDs(dashboards)
           \/ \E i \in 1..Len(dashboards) :
                 IDs(dashboards') = WithoutAt(IDs(dashboards), i) ]_vars

\* C4: an update of an existing record whose input carries a description and no
\* name leaves the stored name as it was and stores the new description, over
\* PUT /dashboard/update and over the app's updateFn alike.
C4_DescriptionOnlyUpdate ==
    [][ ( /\ req'.op \in Updates /\ ~req'.body.bad
          /\ req'.body.name = None /\ req'.body.description # None
          /\ \E i \in 1..Len(dashboards) : dashboards[i].ID = req'.id )
        => \E i \in 1..Len(dashboards) :
              /\ dashboards[i].ID = req'.id
              /\ dashboards'[i].Name = dashboards[i].Name
              /\ dashboards'[i].Description = FieldOf(req'.body.description)
      ]_vars

\* C5: a successful update leaves the length and order of the collection and
\* every record but one with the requested identifier as they were, and that
\* record keeps its identifier and its project, whatever id and project the
\* body carries.
C5_UpdateFrame ==
    [][ ( req'.op \in Updates /\ resp'.status = 200 )
        => /\ Len(dashboards') = Len(dashboards)
           /\ \E i \in 1..Len(dashboards) :
                 /\ dashboards[i].ID = req'.id
                 /\ dashboards'[i].ID = dashboards[i].ID
                 /\ dashboards'[i].Project = dashboards[i].Project
                 /\ \A j \in 1..Len(dashboards) :
                       j # i => dashboards'[j] = dashboards[j] ]_vars

C5_Witness ==
    /\ req.op = "update" /\ resp.status = 200
    /\ req.body.project = Some("q") /\ req.body.id # None
    /\ IDOf(req.body.id) # req.id
    /\ Len(dashboards) = 3
    /\ resp.body[1].ID = req.id /\ resp.body[1].Project = "p"
    /\ resp.body[1].Description = "x"

\* C6: a successful delete removes exactly one record, one with the requested
\* identifier: the collection afterwards is the collection before with that
\* one position cut out, so it is one shorter and the other records keep
\* their contents and their order.
C6_DeleteRemovesOne ==
    [][ ( req'.op = "delete" /\ resp'.status = 204 )
        => \E i \in 1..Len(dashboards) :
              /\ dashboards[i].ID = req'.id
              /\ dashboards' = WithoutAt(dashboards, i) ]_vars

C6_Witness ==
    /\ req.op = "delete" /\ resp.status = 204
    /\ Len(dashboards) = 2
    /\ dashboards[1] # dashboards[2]
    /\ dashboards[2].ID = req.id

\* C9: after a record was deleted by its identifier, the get with that
\* identifier that follows the delete (no create in between) is answered 404.
C9_GetAfterDelete ==
    [][ ( /\ req.op = "delete" /\ resp.status = 204
          /\ req'.op = "get" /\ req'.id = req.id )
        => resp'.status = 404 ]_vars

\* C10 as stated: get, update and delete with an identifier that no record has
\* are answered 404 and leave the collection unchanged.
C10_UnknownIDNotFound ==
    [][ ( /\ req'.op \in { "get", "update", "delete" }
          /\ \A i \in 1..Len(dashboards) : dashboards[i].ID # req'.id )
        => ( resp'.status = 404 /\ dashboards' = dashboards ) ]_vars

\* C10 amended: get, delete, and update with a body that decodes, with an
\* identifier that no record has, are answered 404; an update whose body does
\* not decode is answered 400 whatever its identifier; the collection is
\* unchanged in each case.
C10_UnknownIDUnchanged ==
    [][ ( /\ req'.op \in { "get", "update", "delete" }
          /\ \A i \in 1..Len(dashboards) : dashboards[i].ID # req'.id )
        => ( /\ resp'.status = IF req'.body.bad THEN 400 ELSE 404
             /\ dashboards' = dashboards ) ]_vars

C10_Witness ==
    /\ req.op = "update" /\ ~req.body.bad /\ req.body.name = Some("A")
    /\ resp.status = 404
    /\ Len(dashboards) = 2
    /\ \A i \in 1..Len(dashboards) : dashboards[i].ID # req.id

\* C7: for a collection of length n and a cursor c >= 0 (no cursor: 0), list
\* returns the records at positions c .. min(c+2, n)-1 in collection order,
\* with next = c+2 if c+2 < n and next = 0 otherwise.
C7_ListPage ==
    [][ LET c == IF req'.next = <<>> THEN 0 ELSE Atoi(req'.next).val
            n == Len(dashboards)
        IN  ( /\ req'.op = "list"
              /\ req'.next = <<>> \/ Atoi(req'.next).ok
              /\ c >= 0
              /\ resp'.status # 500 )
            => ( /\ resp'.status = 200
                 /\ resp'.body = IF c >= n THEN <<>>
                                 ELSE SubSeq(dashboards, c + 1,
                                             IF c < n - 2 THEN c + 2 ELSE n)
                 /\ resp'.next = IF c < n - 2 THEN c + 2 ELSE 0 ) ]_vars

\* C8: while no create, update or delete changes the collection, paging from
\* no cursor with the returned next takes at most max(1, ceil(n/2)) calls, each
\* unfinished paging holds a proper prefix of the collection and can go on,
\* and the pages of a finished paging are the collection: every record once,
\* in collection order.
C8_PagingEnumerates ==
    enum.clean =>
       /\ enum.calls <= IF dashboards = <<>> THEN 1 ELSE (Len(dashboards) + 1) \div 2
       /\ enum.status = "done" => enum.pages = dashboards
       /\ enum.status = "running" =>
             /\ Len(enum.pages) = maxres * enum.calls
             /\ Len(enum.pages) < Len(dashboards)
             /\ enum.pages = SubSeq(dashboards, 1, Len(enum.pages))
             /\ Atoi(enum.next) = [ ok |-> TRUE, val |-> Len(enum.pages) ]

C8_Witness ==
    /\ enum.status = "done" /\ enum.clean /\ enum.calls = 2
    /\ Len(dashboards) = 3 /\ enum.pages = dashboards
    /\ dashboards[1].Name = "A" /\ dashboards[2].Name = "B"
    /\ dashboards[3].Name = "C"

\* C11: a create whose project is absent or empty (or whose body is not JSON)
\* is answered 400 and adds no record; a create with a body that decodes and
\* a project is answered 201 and adds exactly one record, at the end, with the
\* fields of the body.
C11_CreateByProject ==
    [][ req'.op = "create"
        => IF req'.body.bad \/ FieldOf(req'.body.project) = ""
           THEN resp'.status = 400 /\ dashboards' = dashboards
           ELSE /\ resp'.status = 201
                /\ Len(dashboards') = Len(dashboards) + 1
                /\ SubSeq(dashboards', 1, Len(dashboards)) = dashboards
                /\ LET d == dashboards'[Len(dashboards')]
                   IN  /\ d.Name = FieldOf(req'.body.name)
                       /\ d.Description = FieldOf(req'.body.description)
                       /\ d.Project = FieldOf(req'.body.project) ]_vars

C11_Witness ==
    /\ req.op = "create" /\ req.body.project = Some("") /\ resp.status = 400
    /\ Len(dashboards) = 1

\* a handler between its mu.Lock() and its deferred mu.Unlock()
Held(h) == hs[h].pc \in { "crit", "crit2", "write", "unlock" }

\* C12: with several handlers running, at most one of them is between
\* mu.Lock() and mu.Unlock() at any time, the mutex is locked while one is,
\* and a step that reads or writes the dashboards slice (lookup, append,
\* overwrite, removal, page copy, encoding of a record) is taken by the one
\* handler that holds the lock.
C12_MutualExclusion ==
    /\ \A h1, h2 \in Handlers : Held(h1) /\ Held(h2) => h1 = h2
    /\ \A h \in Handlers : Held(h) => mu
    /\ lin.access # 0 =>
         /\ Held(lin.access)
         /\ mu
         /\ \A g \in Handlers \ { lin.access } : ~Held(g)

C12_Witness ==
    \E h1, h2 \in Handlers :
      /\ hs[h1].pc = "crit2" /\ hs[h1].r.op = "update" /\ lin.access = h1
      /\ hs[h2].pc = "lock" /\ hs[h2].r.op = "delete"
      /\ mu

\* C13: the handlers that returned did so in the order of their mu.Lock(),
\* each answered what the atomic handler answers when the requests are run one
\* after the other in that order, and when nobody holds the lock the slice is
\* the slice of that sequential run.
C13_Linearizable ==
    /\ Len(lin.done) <= Len(lin.order)
    /\ lin.done = SubSeq(lin.order, 1, Len(lin.done))
    /\ \A h \in Handlers : hs[h].pc = "done" => hs[h].match
    /\ (\A h \in Handlers : ~Held(h)) => dashboards = lin.seq

C13_Witness ==
    \E h1, h2 \in Handlers :
      /\ lin.order = << h1, h2 >> /\ lin.done = << h1, h2 >>
      /\ hs[h1].r.op = "update" /\ hs[h1].resp.status = 200
      /\ hs[h2].r.op = "get" /\ hs[h2].resp.status = 200
      /\ Len(dashboards) >= 1 /\ dashboards[1].Name = "B"

\* C15: the mutex is unlocked whenever no handler is between Lock and Unlock,
\* whichever way the handlers returned (success, not found, failed encode,
\* panic), and under fair scheduling a handler that waits at mu.Lock()
\* eventually returns.
C15_LockReleased ==
    /\ []( (\A h \in Handlers : ~Held(h)) => ~mu )
    /\ \A h \in Handlers : (hs[h].pc = "lock") ~> (hs[h].pc = "done")

C15_Witness ==
    \E h1, h2 \in Handlers :
      /\ lin.order = << h1, h2 >> /\ lin.done = << h1, h2 >>
      /\ hs[h1].r.op = "list" /\ hs[h1].resp.status = Panicked.status
      /\ hs[h2].r.op = "get" /\ hs[h2].resp.status = 404
      /\ ~mu

\* a request C16 calls malformed
BadRequest(r) ==
    \/ r.op \in { "create", "update" } /\ r.body.bad
    \/ r.op = "create" /\ FieldOf(r.body.project) = ""
    \/ r.op = "list" /\ r.next # <<>> /\ ~Atoi(r.next).ok

\* C16: a create or update whose body does not decode, a create without
\* project and a list whose next is not an integer are answered 400 in the
\* step that receives them: the handler returns without having called
\* mu.Lock(), and the slice and the mutex are as they were.
C16_MalformedRejected ==
    [][ \A h \in Handlers :
          hs[h].pc = "idle" /\ hs'[h].pc # "idle" /\ BadRequest(hs'[h].r)
          => /\ hs'[h].pc = "done"
             /\ hs'[h].resp.status = 400
             /\ ~hs'[h].acquired
             /\ \A k \in 1..Len(lin'.order) : lin'.order[k] # h
             /\ dashboards' = dashboards
             /\ mu' = mu ]_vars

C16_Witness ==
    \E h1, h2 \in Handlers :
      /\ hs[h1].pc = "done" /\ hs[h1].r.op = "list" /\ hs[h1].r.next = <<"x">>
      /\ hs[h1].resp.status = 400 /\ ~hs[h1].acquired
      /\ Held(h2) /\ mu

\* the answer to the last request is an error: a 4xx or 5xx status, or a
\* create or update whose response could not be encoded
ErrorOutcome(q, a) ==
    \/ a.status >= 400
    \/ q.op \in { "create" } \cup Updates /\ ~a.encoded

\* C14: a create, update or delete that is answered with an error (4xx, 5xx
\* or a failed encode of the response) leaves the dashboards slice exactly as
\* it was before the request.
C14_NoPartialApplication ==
    [][ req'.op \in { "create", "delete" } \cup Updates
        /\ ErrorOutcome(req', resp')
        => dashboards' = dashboards ]_vars

\* some poll of the running operation fetched an Application that is Synced
\* and Healthy
SawSyncedHealthy ==
    \E k \in 1..Len(argo.polls) :
      /\ ~argo.polls[k].err
      /\ argo.polls[k].status = "Synced"
      /\ argo.polls[k].health = "Healthy"

\* C17: apply of the Application returns its UID, and createFn or updateFn a
\* resource, only when one fetched object showed sync status Synced and health
\* status Healthy together; an operation that polled without ever seeing that
\* ends with an error and no resource.
C17_ApplyWaitsForHealthy ==
    /\ argo.pc = "ret" => SawSyncedHealthy
    /\ argo.op \in { "createFn", "updateFn" } /\ argo.resource # None
       => SawSyncedHealthy /\ argo.err = ""
    /\ argo.pc = "done" /\ argo.polls # <<>> /\ ~SawSyncedHealthy
       => argo.err # "" /\ argo.resource = None

C17_Witness ==
    /\ argo.pc = "done" /\ argo.op = "createFn" /\ argo.resource # None
    /\ Len(argo.polls) = 3
    /\ argo.polls[1].status = "Synced" /\ argo.polls[1].health = "Progressing"
    /\ argo.polls[2].err

\* C18: an updateFn called with an ExternalID that createFn returned is
\* accepted, applies a manifest with the name and namespace createFn used,
\* and returns that ExternalID, name and namespace, whatever its input.
C18_UpdateKeepsIdentity ==
    argo.op = "updateFn" /\ argo.created # None
    => LET c == argo.created[1]
       IN  /\ argo.err \notin { "invalid external ID", "panic" }
           /\ argo.pc \in { "apply", "poll", "ret" }
              => /\ argo.manifest.name = c.name
                 /\ argo.manifest.destination = c.namespace
           /\ argo.resource # None
              => /\ argo.resource[1].ExternalID = c.ExternalID
                 /\ argo.resource[1].name = c.name
                 /\ argo.resource[1].namespace = c.namespace

\* the commands of an Apply, in the order of the code
ApplySteps == << "init", "apply", "show" >>

\* C19: an Apply runs init, apply, show in that order and nothing after a
\* command that failed; its error is "opentofu " and the name of the command
\* that failed; it returns a State only when the three commands succeeded, and
\* that State is the parse of what show printed after the apply of the input.
C19_ApplyOrder ==
    tofu.op = "Apply"
    => /\ Len(tofu.cmds) <= 3
       /\ \A k \in 1..Len(tofu.cmds) :
            /\ tofu.cmds[k].name = ApplySteps[k]
            /\ k < Len(tofu.cmds) => tofu.cmds[k].ok
       /\ tofu.pc = "done"
          => LET last == tofu.cmds[Len(tofu.cmds)]
             IN  IF last.ok
                 THEN /\ Len(tofu.cmds) = 3
                      /\ tofu.err = ""
                      /\ tofu.state # None
                 ELSE /\ tofu.state = None
                      /\ tofu.err = CASE last.name = "init" -> "opentofu init"
                                      [] last.name = "apply" -> "opentofu apply"
                                      [] last.name = "show" -> "opentofu show"
       /\ tofu.state # None
          => /\ Len(tofu.cmds) = 3
             /\ \A k \in 1..3 : tofu.cmds[k].ok
             /\ tofu.out = ShowJSON(Applied(tofu.input))
             /\ LET rs == tofu.state[1].Values.RootModule.Resources
                IN  /\ Len(rs) = 1
                    /\ rs[1].Address = "null_resource.this"
                    /\ rs[1].Values = tofu.input

C19_Witness ==
    /\ tofu.op = "Apply" /\ tofu.pc = "done"
    /\ tofu.state # None
    /\ DOMAIN tofu.input = { "x", "y" }
    /\ tofu.input["x"] = "b" /\ tofu.input["y"] = "a"
    /\ tofu.variables[1][2] = << "y", "a" >>
    /\ tofu.state[1].Values.RootModule.Resources[1].Values = tofu.input

\* the finished enumeration left out a record that was in the slice from its
\* first call to its last
Omitted ==
    /\ enum.status = "done"
    /\ \E d \in enum.kept : \A k \in 1..Len(enum.pages) : enum.pages[k] # d

\* C20: an enumeration through the pages leaves out a record that was in the
\* slice all along only when a create or delete ran between two of its list
\* calls, and such a run exists: with A, B, C stored, the first page is A, B
\* with next 2; A is deleted; the second call starts at index 2 of B, C and
\* ends the enumeration without C.
C20_OmissionNeedsInterleaving ==
    Omitted => ~enum.clean /\ enum.calls >= 2

C20_Witness ==
    /\ Omitted /\ ~enum.clean /\ enum.calls = 2
    /\ Len(enum.pages) = 2
    /\ enum.pages[1].Name = "A" /\ enum.pages[2].Name = "B"
    /\ Len(dashboards) = 2
    /\ dashboards[1] = enum.pages[2]
    /\ dashboards[2].Name = "C" /\ dashboards[2] \in enum.kept

\* C21: every step leaves the surviving records in the order they had: a
\* create puts its record after all the others and changes none of them, a
\* delete cuts one record out, an update overwrites one record in place and
\* keeps its identifier. The slice order is therefore the order of creation.
C21_InsertionOrder ==
    [][ \/ dashboards' = dashboards
        \/ /\ Len(dashboards') = Len(dashboards) + 1
           /\ SubSeq(dashboards', 1, Len(dashboards)) = dashboards
        \/ \E i \in 1..Len(dashboards) : dashboards' = WithoutAt(dashboards, i)
        \/ /\ Len(dashboards') = Len(dashboards)
           /\ \E i \in 1..Len(dashboards) :
                /\ dashboards'[i].ID = dashboards[i].ID
                /\ \A k \in 1..Len(dashboards) :
                     k # i => dashboards'[k] = dashboards[k] ]_vars

C21_Witness ==
    \E h1, h2 \in Handlers :
      /\ lin.done = << h1, h2 >>
      /\ hs[h1].r.op = "delete" /\ hs[h1].resp.status = 204
      /\ hs[h2].r.op = "create" /\ hs[h2].resp.status = 201
      /\ Len(dashboards) = 2
      /\ dashboards[1].Name = "C" /\ dashboards[1].ID = id0
      /\ dashboards[2].Name = "A" /\ dashboards[2].ID # id0

\* C22: no handler writes its response while it holds the lock.
C22_NoIOUnderLock ==
    \A h \in Handlers : hs[h].pc = "write" => ~mu

\* C23: the identifier of a created record, stored and returned, is the one
\* generateExternalID made; the id of the request body is not used.
C23_StoreAssignsID ==
    req.op = "create" /\ resp.status = 201
    => LET d == dashboards[Len(dashboards)]
       IN  /\ Len(dashboards) >= 1
           /\ d.ID \in GenIDs
           /\ req.body.id # None => d.ID # req.body.id[1]
           /\ resp.encoded => resp.body[1].ID = d.ID

C23_Witness ==
    /\ req.op = "create" /\ resp.status = 201 /\ resp.encoded
    /\ req.body.id = Some(id0)
    /\ resp.body[1].ID \in GenIDs

\* C27: a listFn call that succeeds returns the page the server cuts at the
\* Next of its request, returns Next "" exactly when the server's next is 0
\* and the decimal digits of the server's next otherwise; paging from "" with
\* the returned Next over a still slice ends with every record once.
C27_ListFnForwardsNext ==
    /\ req.op = "listFn" /\ resp.status = 200
       => LET c == IF req.next = <<>> THEN 0 ELSE Atoi(req.next).val
              n == Len(dashboards)
          IN  /\ req.next = <<>> \/ Atoi(req.next).ok
              /\ resp.body = IF c >= n THEN <<>>
                             ELSE SubSeq(dashboards, c + 1,
                                         IF c + 2 < n THEN c + 2 ELSE n)
              /\ enum.next = <<>> <=> resp.next = 0
              /\ resp.next # 0
                 => Atoi(enum.next) = [ ok |-> TRUE, val |-> resp.next ]
              /\ enum.status = IF resp.next = 0 THEN "done" ELSE "running"
    /\ enum.status = "done" /\ enum.clean
       => /\ Len(enum.pages) = Len(dashboards)
          /\ \A k \in 1..Len(dashboards) : enum.pages[k] = dashboards[k]

C27_Witness ==
    /\ req.op = "listFn" /\ req.next = << "2" >> /\ resp.status = 200
    /\ resp.next = 0 /\ enum.next = <<>> /\ enum.status = "done"
    /\ enum.clean /\ Len(enum.pages) = 3
    /\ resp.body = << dashboards[3] >>

\* C28: for every integer cursor the list answers normally (the encode of the
\* response aside), and for a cursor at or beyond the end of the slice the
\* page is empty and next is zero.
C28_AnyCursorSafe ==
    req.op = "list" /\ req.next # <<>> /\ Atoi(req.next).ok
    => /\ resp.status \in { 200, 500 }
       /\ resp.status = 200 /\ Atoi(req.next).val >= Len(dashboards)
          => resp.body = <<>> /\ resp.next = 0

\* C25: createFn applies the Secret before the Application: it reaches the
\* apply of the Application only with the non-empty UID the Secret step
\* returned, and never applies the Application more than once; a createFn
\* that failed before or in the Secret step has applied no Application and
\* ends with an error and no resource.
C25_SecretBeforeApplication ==
    argo.op = "createFn"
    => /\ argo.pc \in { "apply", "poll", "ret" } => argo.secretUID # <<>>
       /\ argo.applies > 0 => argo.secretUID # <<>>
       /\ argo.applies <= 1
       /\ argo.pc = "done" /\ argo.secretUID = <<>>
          => argo.applies = 0 /\ argo.err # "" /\ argo.resource = None

C25_Witness ==
    /\ argo.op = "createFn" /\ argo.pc = "done"
    /\ argo.err = "failed to apply secret manifest"
    /\ argo.applies = 0 /\ argo.resource = None

\* C30: a readFn called with the ExternalID createFn returned, on an
\* Application that is in the cluster as that createFn applied it, returns
\* the name, namespace, repo_url, source_path and image createFn returned.
C30_ReadReturnsCreated ==
    /\ argo.op = "readFn" /\ argo.resource # None
    /\ argo.cluster = argo.createdAs
    => LET c == argo.created[1]
           r == argo.resource[1]
       IN  /\ r.name = c.name
           /\ r.repo_url = c.repo_url
           /\ r.source_path = c.source_path
           /\ r.namespace = c.namespace
           /\ r.image = c.image

\* C24: whatever createFn calls run and however they interleave, the cluster
\* holds at most one repository Secret for a repo_url; and a createFn called
\* for a repo_url whose Secret was already there changes no Secret and, when
\* its Secret step succeeds, has the UID of that Secret.
C24_OneSecretPerRepo ==
    /\ [](\A a, b \in k8s.secrets : a.data.url = b.data.url => a = b)
    /\ [][ \A c \in Callers :
             LET me == k8s.callers[c]'
             IN  k8s.callers[c]' # k8s.callers[c] /\ me.existed # {}
                 => /\ k8s.secrets' = k8s.secrets
                    /\ me.pc = "done" /\ me.err = ""
                       => \A s \in me.existed : me.uid = s.uid ]_vars

C24_Witness ==
    \E c \in Callers :
        LET me == k8s.callers[c]
        IN  /\ me.pc = "done" /\ me.err = "" /\ me.existed # {}
            /\ \E s \in k8s.secrets :
                  /\ s.name = me.name /\ s.uid = me.uid
                  /\ s.data.url = toBase64(me.input.repo_url)
                  /\ s.data.name # toBase64(me.input.name)
            /\ Cardinality(k8s.secrets) = 2

\* the commands that use the state Import has filled
UsesState == { "apply", "show", "destroy" }

\* C26: updateFn, readFn and deleteFn start from an empty state and run
\* init and then one import for the bucket and one for its versioning, each
\* only after the commands before it succeeded; apply, show and destroy run
\* only after both imports succeeded; and an operation whose Import failed
\* runs nothing more and ends with the import error and no resource.
C26_ImportBeforeUse ==
    s3.op \in { "updateFn", "readFn", "deleteFn" }
    => LET cmds == s3.cmds
           at == 1..Len(cmds)
           imports == { k \in at : cmds[k].name = "import" }
       IN  /\ cmds = <<>> => s3.state = {}
           /\ cmds # <<>> => cmds[1].name = "init"
           /\ \A k \in imports : \A j \in 1..(k - 1) : cmds[j].ok
           /\ \A j, k \in imports :
                 j # k => cmds[j].address # cmds[k].address
           /\ \A k \in at :
                 cmds[k].name \in UsesState
                 => \A a \in { "aws_s3_bucket.bucket",
                                "aws_s3_bucket_versioning.versioning" } :
                       \E j \in 1..(k - 1) :
                          /\ cmds[j].name = "import" /\ cmds[j].address = a
                          /\ cmds[j].ok
           /\ \A k \in at :
                 k <= 3 /\ ~cmds[k].ok
                 => /\ Len(cmds) = k
                    /\ s3.pc = "done" /\ s3.resource = None
                    /\ s3.err = "failed to import OpenTofu module"

C26_Witness ==
    /\ s3.op = "deleteFn" /\ s3.pc = "done" /\ s3.resource # None
    /\ Len(s3.cmds) = 5
    /\ s3.cmds[2].address = "aws_s3_bucket_versioning.versioning"
    /\ s3.cmds[3].address = "aws_s3_bucket.bucket"
    /\ s3.cmds[5].name = "destroy" /\ s3.cmds[5].ok
    /\ s3.cloud = {}

\* C29: a readFn called with the ExternalID createFn returned, whose imported
\* state holds the bucket of that ARN, returns a resource with arn, bucket,
\* region and versioning and not the error "resource not found".
C29_ReadFindsBucket ==
    /\ s3.op = "readFn" /\ s3.pc = "done"
    /\ s3.created = Some(s3.externalID)
    /\ s3.out # None
    /\ \E r \in s3.out[1] : r.type = "aws_s3_bucket" /\ r.arn = s3.externalID
    => /\ s3.err # "resource not found"
       /\ s3.resource # None
       /\ \A f \in { "arn", "bucket", "region", "versioning" } :
             s3.resource[1].Properties[f] # None

====
